---- MODULE Spec2Model ----
(***************************************************************************)
(* Model of the VKB memory-visualizer HTTP front door (src/api-server.py): *)
(* the single-threaded accept loop of main(), the request router           *)
(* (do_GET / do_POST / do_OPTIONS), the team state store kept in the       *)
(* process environment (KNOWLEDGE_VIEW), the backend proxy with its        *)
(* timeout and JSON-line extraction, and the knowledge-management file     *)
(* route with its containment check.                                       *)
(*                                                                         *)
(* Text is a sequence of characters; a character is a one-element token    *)
(* ("a", ",", " ", "{", ...).  Multi-letter tokens ("api", "TICK", "a:1")  *)
(* stand for a run of characters none of the modelled code looks inside.   *)
(***************************************************************************)
EXTENDS Integers, Sequences, FiniteSets, TLC

\* ------------------------------------------------------------------------
\* Bounds of the model
\* ------------------------------------------------------------------------
NClients == 2     \* connections the server sees in one run
MaxTeams == 2     \* longest "teams" list of a POST body
MaxLines == 2     \* most lines in a generated subprocess stdout

Clients == 1..NClients

\* ------------------------------------------------------------------------
\* Text helpers (Python str methods used by the handlers)
\* ------------------------------------------------------------------------
\* characters str.strip() removes
Whitespace == {" ", "\n", "\t"}

RECURSIVE Concat(_)
\* ''.join(parts)
Concat(parts) ==
    IF parts = <<>> THEN <<>> ELSE Head(parts) \o Concat(Tail(parts))

RECURSIVE JoinWith(_, _)
\* sep.join(parts)
JoinWith(sep, parts) ==
    IF parts = <<>> THEN <<>>
    ELSE IF Len(parts) = 1 THEN Head(parts)
    ELSE Head(parts) \o sep \o JoinWith(sep, Tail(parts))

RECURSIVE SplitOn(_, _)
\* s.split(sep) for a one-character separator: always at least one piece
SplitOn(s, sep) ==
    IF \A i \in 1..Len(s) : s[i] # sep THEN <<s>>
    ELSE LET k == CHOOSE i \in 1..Len(s) :
                      s[i] = sep /\ \A j \in 1..(i-1) : s[j] # sep
         IN  <<SubSeq(s, 1, k-1)>> \o SplitOn(SubSeq(s, k+1, Len(s)), sep)

RECURSIVE LStrip(_)
LStrip(s) ==
    IF s # <<>> /\ Head(s) \in Whitespace THEN LStrip(Tail(s)) ELSE s

RECURSIVE RStrip(_)
RStrip(s) ==
    IF s # <<>> /\ s[Len(s)] \in Whitespace
    THEN RStrip(SubSeq(s, 1, Len(s)-1)) ELSE s

\* s.strip()
Strip(s) == RStrip(LStrip(s))

\* s.replace(ch, '')
Remove(s, ch) == LET Keep(c) == c # ch IN SelectSeq(s, Keep)

\* s.startswith(prefix)
StartsWith(s, prefix) ==
    /\ Len(prefix) <= Len(s)
    /\ SubSeq(s, 1, Len(prefix)) = prefix

\* all sequences over S of length 0..n
SeqsUpTo(S, n) == UNION {[1..k -> S] : k \in 0..n}

\* ------------------------------------------------------------------------
\* Team state store: handle_set_teams / handle_get_current_teams
\* ------------------------------------------------------------------------
\* the literal 'coding'
Coding == <<"c", "o", "d", "i", "n", "g">>

\* team identifiers a client may send: empty, plain, with a comma and
\* leading whitespace inside, and the default itself
TeamIds == { <<>>, <<"a">>, <<"b", ",", " ", "a">>, Coding }

TeamLists == SeqsUpTo(TeamIds, MaxTeams)

\* variant: the empty list is joined as it is
DefaultTeamsKeepEmpty(teams) == teams

\* lines 192-193: if not teams: teams = ['coding']
DefaultTeams(teams) == IF teams = <<>> THEN <<Coding>> ELSE teams

\* line 196: teams_str = ','.join(teams)
TeamsStr(teams) == JoinWith(<<",">>, teams)

\* variant: an empty result is returned as it is
ParseTeamsNoDefault(teams_env) ==
    LET unbraced == Remove(Remove(teams_env, "{"), "}")
        pieces   == SplitOn(unbraced, ",")
        NonBlank(t) == Strip(t) # <<>>
        kept     == SelectSeq(pieces, NonBlank)
    IN  [i \in 1..Len(kept) |-> Strip(kept[i])]

\* lines 81-85: strip braces, split on commas, trim, drop empties, default
ParseTeams(teams_env) ==
    LET unbraced == Remove(Remove(teams_env, "{"), "}")
        pieces   == SplitOn(unbraced, ",")
        NonBlank(t) == Strip(t) # <<>>
        kept     == SelectSeq(pieces, NonBlank)
        trimmed  == [i \in 1..Len(kept) |-> Strip(kept[i])]
    IN  IF trimmed = <<>> THEN <<Coding>> ELSE trimmed

\* ------------------------------------------------------------------------
\* Backend proxy: JSON-line extraction and decoding
\* ------------------------------------------------------------------------
\* "TICK" and "WARN" are the status glyphs of the backend's logger
LogMarkers == {"TICK", "WARN", "[", " "}

Digits == {"1", "2"}

\* members of a JSON object, each one token
Members == {"a:1", "b:2"}

NoLine == [found |-> FALSE, line |-> <<>>]

RECURSIVE FirstCandidate(_)
\* lines 314-318: first line that is non-empty and does not start with a
\* log marker
FirstCandidate(lines) ==
    IF lines = <<>> THEN NoLine
    ELSE IF Head(lines) # <<>> /\ Head(lines)[1] \notin LogMarkers
         THEN [found |-> TRUE, line |-> Head(lines)]
         ELSE FirstCandidate(Tail(lines))

\* lines 312-318: lines = result.stdout.strip().split('\n'), then the scan
JsonLine(stdout) == FirstCandidate(SplitOn(Strip(stdout), "\n"))

JsonError == [type |-> "error", digits |-> <<>>, members |-> <<>>]

\* json.loads on one line, for the JSON texts this alphabet can spell:
\* numbers, objects of member tokens, arrays of digits; surrounding
\* whitespace is insignificant
JsonLoads(text) ==
    LET t == Strip(text)
        inner == SubSeq(t, 2, Len(t) - 1)
        NotBlank(c) == c \notin Whitespace
    IN  IF t = <<>> THEN JsonError
        ELSE IF \A i \in 1..Len(t) : t[i] \in Digits
             THEN [type |-> "number", digits |-> t, members |-> <<>>]
        ELSE IF /\ Len(t) >= 2 /\ t[1] = "{" /\ t[Len(t)] = "}"
                /\ \A i \in 1..Len(inner) : inner[i] \in Members \cup Whitespace
                /\ Len(SelectSeq(inner, NotBlank)) <= 1
             THEN [type |-> "object", digits |-> <<>>,
                   members |-> SelectSeq(inner, NotBlank)]
        ELSE IF /\ Len(t) >= 2 /\ t[1] = "[" /\ t[Len(t)] = "]"
                /\ \A i \in 1..Len(inner) : inner[i] \in Digits \cup Whitespace
                /\ Len(SelectSeq(inner, NotBlank)) <= 1
             THEN [type |-> "array", digits |-> SelectSeq(inner, NotBlank),
                   members |-> <<>>]
        ELSE JsonError

\* lines 310-330: what the zero-exit branch computes from stdout
ExtractJson(stdout) ==
    LET c == JsonLine(stdout)
    IN  IF c.found THEN JsonLoads(c.line) ELSE JsonError

\* sample lines of backend output: empty, log lines with each marker, an
\* indented line, garbage, and JSON texts, one of them indented by a tab
LineSamples == { <<>>, <<"[", "1", "]">>, <<"TICK">>, <<"WARN">>,
                 <<" ", "x">>, <<"x">>, <<"1">>, <<"{", "a:1", "}">>,
                 <<"\t", "[", "1", "]">> }

\* the stdout of the spec's example: "[info] starting\nTICK ready\n{"a":1}\n"
ExampleStdout ==
    <<"[", "i", "]", "\n", "TICK", "\n", "{", "a:1", "}", "\n">>

\* every stdout of up to MaxLines sample lines, each ended by a newline,
\* and the example
Stdouts ==
    { Concat([i \in 1..Len(ls) |-> ls[i] \o <<"\n">>]) :
          ls \in SeqsUpTo(LineSamples, MaxLines) } \cup {ExampleStdout}

\* ExtractJson over the sampled stdouts, computed once
Extracted == [s \in Stdouts |-> ExtractJson(s)]

\* stderr texts of a failing subprocess
Stderrs == { <<>>, <<"e">>, <<" ">> }

\* lines 240 / 332: result.stderr.strip() if result.stderr else 'Unknown error'
ErrorMsg(stderr) == IF stderr # <<>> THEN Strip(stderr) ELSE <<"Unknown error">>

\* ------------------------------------------------------------------------
\* Paths: a path is text whose characters are "/" and name tokens; the
\* token ".." is the parent segment
\* ------------------------------------------------------------------------
\* coding_path: three directories above the server file (lines 104, 351)
CodingPath == <<"/", "h", "/", "c">>

\* symbolic links on disk: canonical location (list of names) -> target
SymlinkAt  == << <<"h">>, <<"c">>, <<"K">>, <<"out">> >>
SymlinkTo  == << <<"e">> >>

\* regular files on disk, by canonical path
Files == { <<"/", "h", "/", "c", "/", "K", "/", "d.md">>,
           <<"/", "h", "/", "c", "x", "/", "s">>,
           <<"/", "e", "/", "p">> }

\* path.lstrip('/')
RECURSIVE LStripSlash(_)
LStripSlash(p) ==
    IF p # <<>> /\ Head(p) = "/" THEN LStripSlash(Tail(p)) ELSE p

\* os.path.join(a, b) for a relative b
PathJoin(a, b) == a \o <<"/">> \o b

RECURSIVE Resolve(_, _)
\* walk the segments: drop empty and "." segments, step up on "..",
\* follow a symbolic link where one is met
Resolve(done, rest) ==
    IF rest = <<>> THEN done
    ELSE LET name == Head(rest) IN
         IF name = <<>> \/ name = <<".">> THEN Resolve(done, Tail(rest))
         ELSE IF name = <<"..">>
              THEN Resolve(IF done = <<>> THEN <<>>
                           ELSE SubSeq(done, 1, Len(done) - 1), Tail(rest))
         ELSE IF Append(done, name) = SymlinkAt
              THEN Resolve(SymlinkTo, Tail(rest))
         ELSE Resolve(Append(done, name), Tail(rest))

\* os.path.realpath of an absolute path
Realpath(p) ==
    LET names == Resolve(<<>>, SplitOn(p, "/"))
    IN  <<"/">> \o JoinWith(<<"/">>, names)

\* lines 354-359: the canonical target of a knowledge-management request
KMTarget(path) == Realpath(PathJoin(CodingPath, LStripSlash(path)))

\* line 359: full_path.startswith(os.path.realpath(coding_path))
KMAllowed(path) == StartsWith(KMTarget(path), Realpath(CodingPath))

\* ------------------------------------------------------------------------
\* Requests
\* ------------------------------------------------------------------------
KM == <<"/", "K", "/">>     \* "/knowledge-management/"

KMPaths == { KM \o <<"d.md">>,
             KM \o <<"nofile">>,
             KM \o <<"..", "/", "..", "/", "etc", "/", "passwd">>,
             KM \o <<"..", "/", "..", "/", "c", "x", "/", "s">>,
             KM \o <<"..", "/", "..", "/", "c", "x", "/", "nofile">>,
             KM \o <<"..", "/", "..", "/", "..", "/", "e", "/", "p">>,
             KM \o <<"out", "/", "p">>,
             KM \o <<"..">> }

Api(name) == <<"/", "api", "/", name>>

ApiNames == {"teams", "available-teams", "current-teams", "config",
             "health", "entities", "stats"}

GetTargets ==
    {Api(n) : n \in ApiNames} \cup {<<"/", "health">>}
        \cup {Api("stats") \o <<"?", "q">>, <<"/", "index.html">>}
        \cup KMPaths

\* bodies of POST /api/teams: a JSON object with a list of strings under
\* 'teams', an object without 'teams', text that is not JSON, JSON that is
\* not an object, and a list with a non-string element
NoBody == [kind |-> "none", teams |-> <<>>]

PostBodies ==
    {[kind |-> "teams", teams |-> L] : L \in TeamLists}
        \cup {[kind |-> k, teams |-> <<>>] :
                  k \in {"noteams", "invalid", "nonobject", "badelem"}}

Requests ==
    {[method |-> "GET", target |-> t, body |-> NoBody] : t \in GetTargets}
        \cup {[method |-> "POST", target |-> Api("teams"), body |-> b] :
                  b \in PostBodies}
        \cup {[method |-> m, target |-> t, body |-> NoBody] :
                  m \in {"POST", "OPTIONS", "PUT"},
                  t \in {Api("config"), <<"/", "index.html">>}}
        \cup {[method |-> "OPTIONS", target |-> Api("teams"), body |-> NoBody]}

NoReq == [method |-> "-", target |-> <<>>, body |-> NoBody]

\* urlparse(self.path).path: the target up to the query string
UrlPath(target) ==
    IF \E i \in 1..Len(target) : target[i] = "?"
    THEN SubSeq(target, 1,
                (CHOOSE i \in 1..Len(target) :
                     target[i] = "?" /\ \A j \in 1..(i-1) : target[j] # "?") - 1)
    ELSE target

\* do_GET, lines 38-65
RouteGet(path) ==
    IF path = Api("teams") \/ path = Api("available-teams")
        THEN "get_available_teams"
    ELSE IF path = Api("current-teams") THEN "get_current_teams"
    ELSE IF path = Api("config") THEN "get_config"
    ELSE IF path = <<"/", "health">> THEN "health_check"
    ELSE IF path = Api("health") \/ path = Api("entities")
            \/ path = Api("relations") \/ path = Api("stats")
        THEN "database_query"
    ELSE IF StartsWith(path, KM) THEN "knowledge_management_file"
    ELSE "static"

\* do_POST, lines 67-74
RoutePost(path) ==
    IF path = Api("teams") THEN "set_teams" ELSE "not_found"

\* the method dispatch of the base handler, then do_GET / do_POST /
\* do_OPTIONS
Route(req) ==
    IF req.method = "GET" THEN RouteGet(UrlPath(req.target))
    ELSE IF req.method = "POST" THEN RoutePost(UrlPath(req.target))
    ELSE IF req.method = "OPTIONS" THEN "options"
    ELSE "unsupported"

\* line 53-59: the query type handed to handle_database_query
QueryType(path) == path[4]

\* ------------------------------------------------------------------------
\* Subprocesses
\* ------------------------------------------------------------------------
\* timeout=10 of the query invocations, timeout=30 of 'data process'
QueryTimeout == 10
ReprocessTimeout == 30

\* how long a child runs if left alone, in seconds, or for ever
Durations == {5, 11, 31}

ProcTimes == {[hangs |-> FALSE, dur |-> d] : d \in Durations}
                 \cup {[hangs |-> TRUE, dur |-> 0]}

NoTime == [hangs |-> FALSE, dur |-> 0]

\* subprocess.run(..., timeout=t): TimeoutExpired when the child is still
\* running after t seconds
Expires(t, time) == time.hangs \/ time.dur > t

\* variant: the wait is abandoned and the child left running
ReapOnTimeoutLeak(ps, c) == ps

\* subprocess.run on expiry kills the child and waits for it before
\* TimeoutExpired reaches the handler
ReapOnTimeout(ps, c) == {p \in ps : p.owner # c}

\* the child has exited by itself
ReapOnExit(ps, c) == {p \in ps : p.owner # c}

\* ------------------------------------------------------------------------
\* State
\* ------------------------------------------------------------------------
VARIABLES
    environ,      \* os.environ: KNOWLEDGE_VIEW and PORT
    dist_exists,  \* whether dist/memory.json, the cached artifact, exists
    conn,         \* per connection: the request, its handler's position and
                  \* locals, the responses sent, and what happened to its
                  \* subprocess (run, time, stdout), how many subprocesses
                  \* it has started (spawns) and whether it removed the
                  \* cached artifact (inval)
    procs,        \* running child processes
    last_set      \* history: the input of the latest POST /api/teams that
                  \* wrote the selection, and whether that write replaced
                  \* a different selection written by an earlier POST

vars == <<environ, dist_exists, conn, procs, last_set>>

Unset == [set |-> FALSE, val |-> <<>>]
Val(v) == [set |-> TRUE, val |-> v]

\* os.environ.get(name, default)
EnvGet(e, default) == IF e.set THEN e.val ELSE default

NoPost == [did |-> FALSE, teams |-> <<>>, changed |-> FALSE]

IdleConn == [st |-> "idle", req |-> NoReq, handler |-> "-", pc |-> "-",
             teams |-> <<>>, resp |-> <<>>, run |-> "none",
             time |-> NoTime, stdout |-> <<>>, inval |-> FALSE,
             spawns |-> 0]

Init ==
    /\ environ \in [KNOWLEDGE_VIEW : {Unset, Val(Coding), Val(<<"{", "a", "}">>),
                                      Val(<<"{", ",", " ", "}">>)},
                    PORT : {Unset, Val(<<"x">>)}]
    /\ dist_exists \in BOOLEAN
    /\ conn = [c \in Clients |-> IdleConn]
    /\ procs = {}
    /\ last_set = NoPost

\* ------------------------------------------------------------------------
\* The accept loop: main(), lines 471-483
\* ------------------------------------------------------------------------
\* variant: a threading server, one handler thread per connection
CanAcceptThreaded(cn) == TRUE

\* socketserver.TCPServer without a threading mix-in: serve_forever takes
\* the next connection only when the previous handler has returned
CanAccept(cn) == \A d \in Clients : cn[d].st # "handling"

Connect(c) ==
    /\ conn[c].st = "idle"
    /\ conn' = [conn EXCEPT ![c].st = "waiting"]
    /\ UNCHANGED <<environ, dist_exists, procs, last_set>>

Accept(c) ==
    /\ conn[c].st = "waiting"
    /\ CanAccept(conn)
    /\ \E req \in Requests :
           conn' = [conn EXCEPT ![c] =
                        [@ EXCEPT !.st = "handling", !.req = req,
                                  !.handler = Route(req), !.pc = "start"]]
    /\ UNCHANGED <<environ, dist_exists, procs, last_set>>

At(c, handler, pc) ==
    /\ conn[c].st = "handling"
    /\ conn[c].handler = handler
    /\ conn[c].pc = pc

\* the headers both servers add to a response before it is flushed
CorsHeaders ==
    { [name |-> "Access-Control-Allow-Origin", value |-> "*"],
      [name |-> "Access-Control-Allow-Methods", value |-> "GET, POST, OPTIONS"],
      [name |-> "Access-Control-Allow-Headers", value |-> "Content-Type"] }

\* the Content-Type a handler sends with a body: none with the empty body
\* of do_OPTIONS, text/html with the error page of send_error, by file
\* extension for files, application/json in send_json_response (line 267)
ContentType(body) ==
    IF body.kind = "empty" THEN {}
    ELSE {[name |-> "Content-Type",
           value |-> IF body.kind = "html_error" THEN "text/html"
                     ELSE IF body.kind \in {"static", "file"} THEN "by extension"
                     ELSE "application/json"]}

\* variant: end_headers of the base class, which adds nothing
EndHeadersBase(headers) == headers

\* end_headers, lines 26-31: every response of the handler class passes
\* through it, send_error and the static file server included
EndHeaders(headers) == headers \cup CorsHeaders

\* send_response + headers + body: one response on the wire
Responded(r, status, body) ==
    [r EXCEPT !.resp = Append(@, [status |-> status, body |-> body,
                                  headers |-> EndHeaders(ContentType(body))]),
              !.pc = "sent"]

\* an exception left the handler: the base server logs it and closes the
\* connection without a response
Raised(r) == [r EXCEPT !.pc = "raised"]

\* the handler has returned; the connection is closed
Finish(c) ==
    /\ conn[c].st = "handling"
    /\ conn[c].pc \in {"sent", "raised"}
    /\ conn' = [conn EXCEPT ![c] = [IdleConn EXCEPT !.st = "closed"]]
    /\ UNCHANGED <<environ, dist_exists, procs, last_set>>

\* ------------------------------------------------------------------------
\* Team state store handlers
\* ------------------------------------------------------------------------
\* variant: the handler writes the value it read back to the environment
GetCurrentTeamsStoring(c) ==
    /\ At(c, "get_current_teams", "start")
    /\ LET teams_env == EnvGet(environ.KNOWLEDGE_VIEW, Coding)
       IN  /\ conn' = [conn EXCEPT ![c] =
                           Responded(@, 200,
                                     [kind |-> "current_teams",
                                      teams |-> ParseTeams(teams_env),
                                      raw |-> teams_env])]
           /\ environ' = [environ EXCEPT !.KNOWLEDGE_VIEW = Val(teams_env)]
    /\ UNCHANGED <<dist_exists, procs, last_set>>

\* handle_get_current_teams, lines 76-87
GetCurrentTeams(c) ==
    /\ At(c, "get_current_teams", "start")
    /\ LET teams_env == EnvGet(environ.KNOWLEDGE_VIEW, Coding)
       IN  conn' = [conn EXCEPT ![c] =
                        Responded(@, 200,
                                  [kind |-> "current_teams",
                                   teams |-> ParseTeams(teams_env),
                                   raw |-> teams_env])]
    /\ UNCHANGED <<environ, dist_exists, procs, last_set>>

\* handle_get_config, lines 89-99
GetConfig(c) ==
    /\ At(c, "get_config", "start")
    /\ \E data_source \in {"online", "batch"} :
           conn' = [conn EXCEPT ![c] =
                        Responded(@, 200,
                                  [kind |-> "config",
                                   dataSource |-> data_source,
                                   knowledgeView |->
                                       EnvGet(environ.KNOWLEDGE_VIEW, Coding)])]
    /\ UNCHANGED <<environ, dist_exists, procs, last_set>>

SetFailure(error, detail) ==
    [kind |-> "set", success |-> FALSE, error |-> error, detail |-> detail]

\* variant: only undecodable text is refused; other bodies are carried on
\* with whatever list they hold
SetTeamsParseLenient(c) ==
    /\ At(c, "set_teams", "start")
    /\ LET body == conn[c].req.body IN
       conn' = [conn EXCEPT ![c] =
                    IF body.kind = "invalid"
                    THEN Responded(@, 500, SetFailure("exception", <<>>))
                    ELSE [@ EXCEPT !.teams = DefaultTeams(body.teams),
                                   !.pc = "write"]]
    /\ UNCHANGED <<environ, dist_exists, procs, last_set>>

\* handle_set_teams, lines 185-196 and 258-262: read and decode the body,
\* substitute the default, join; any exception is answered with 500
SetTeamsParse(c) ==
    /\ At(c, "set_teams", "start")
    /\ LET body == conn[c].req.body IN
       conn' = [conn EXCEPT ![c] =
                    IF body.kind \in {"invalid", "nonobject", "badelem"}
                    THEN Responded(@, 500, SetFailure("exception", <<>>))
                    ELSE [@ EXCEPT !.teams = DefaultTeams(body.teams),
                                   !.pc = "write"]]
    /\ UNCHANGED <<environ, dist_exists, procs, last_set>>

\* line 197: os.environ['KNOWLEDGE_VIEW'] = teams_str
SetTeamsWriteEnv(c) ==
    /\ At(c, "set_teams", "write")
    /\ environ' = [environ EXCEPT
                       !.KNOWLEDGE_VIEW = Val(TeamsStr(conn[c].teams))]
    /\ last_set' = [did |-> TRUE, teams |-> conn[c].req.body.teams,
                    changed |-> /\ last_set.did
                                /\ environ.KNOWLEDGE_VIEW
                                       # Val(TeamsStr(conn[c].teams))]
    /\ conn' = [conn EXCEPT ![c].pc = "remove"]
    /\ UNCHANGED <<dist_exists, procs>>

\* lines 200-202: delete dist/memory.json if present; a failing os.remove
\* is answered by the outer except
SetTeamsRemoveDist(c) ==
    /\ At(c, "set_teams", "remove")
    /\ \E removable \in BOOLEAN :
           IF dist_exists /\ ~removable
           THEN /\ conn' = [conn EXCEPT ![c] =
                                Responded(@, 500, SetFailure("exception", <<>>))]
                /\ UNCHANGED dist_exists
           ELSE /\ dist_exists' = FALSE
                /\ conn' = [conn EXCEPT ![c].pc = "check", ![c].inval = TRUE]
    /\ UNCHANGED <<environ, procs, last_set>>

\* variant: a missing CLI undoes the write of the selection
SetTeamsStartRollback(c) ==
    /\ At(c, "set_teams", "check")
    /\ \E cli_exists \in BOOLEAN, spawned \in BOOLEAN, time \in ProcTimes :
           IF ~cli_exists
           THEN /\ conn' = [conn EXCEPT ![c] =
                                Responded([@ EXCEPT !.run = "missing"], 500,
                                          SetFailure("VKB CLI not found", <<>>))]
                /\ environ' = [environ EXCEPT !.KNOWLEDGE_VIEW = Unset]
                /\ UNCHANGED procs
           ELSE IF ~spawned
           THEN /\ conn' = [conn EXCEPT ![c] =
                                Responded([@ EXCEPT !.run = "spawn_failed"], 500,
                                          SetFailure("Subprocess error", <<>>))]
                /\ UNCHANGED <<environ, procs>>
           ELSE /\ procs' = procs \cup
                        {[owner |-> c, cmd |-> "data process", arg |-> "-",
                          kv |-> TeamsStr(conn[c].teams)]}
                /\ conn' = [conn EXCEPT ![c].pc = "run", ![c].time = time,
                                        ![c].spawns = @ + 1]
                /\ UNCHANGED environ
    /\ UNCHANGED <<dist_exists, last_set>>

\* lines 206-231: check that the CLI exists, then start 'data process'
SetTeamsStart(c) ==
    /\ At(c, "set_teams", "check")
    /\ \E cli_exists \in BOOLEAN, spawned \in BOOLEAN, time \in ProcTimes :
           IF ~cli_exists
           THEN /\ conn' = [conn EXCEPT ![c] =
                                Responded([@ EXCEPT !.run = "missing"], 500,
                                          SetFailure("VKB CLI not found", <<>>))]
                /\ UNCHANGED procs
           ELSE IF ~spawned
           THEN /\ conn' = [conn EXCEPT ![c] =
                                Responded([@ EXCEPT !.run = "spawn_failed"], 500,
                                          SetFailure("Subprocess error", <<>>))]
                /\ UNCHANGED procs
           ELSE /\ procs' = procs \cup
                        {[owner |-> c, cmd |-> "data process", arg |-> "-",
                          kv |-> TeamsStr(conn[c].teams)]}
                /\ conn' = [conn EXCEPT ![c].pc = "run", ![c].time = time,
                                        ![c].spawns = @ + 1]
    /\ UNCHANGED <<environ, dist_exists, last_set>>

\* variant: the exit code is not looked at
SetResultIgnoreExit(rc, teams, stderr) ==
    [status |-> 200,
     body |-> [kind |-> "set", success |-> TRUE, teams |-> teams,
               message |-> TeamsStr(teams)]]

\* lines 233-246: the response of handle_set_teams once 'data process'
\* has exited with code rc
SetResult(rc, teams, stderr) ==
    IF rc = 0
    THEN [status |-> 200,
          body |-> [kind |-> "set", success |-> TRUE, teams |-> teams,
                    message |-> TeamsStr(teams)]]
    ELSE [status |-> 500,
          body |-> SetFailure("Data processing failed", ErrorMsg(stderr))]

\* lines 224-256: subprocess.run returns or raises TimeoutExpired
SetTeamsReturn(c) ==
    /\ At(c, "set_teams", "run")
    /\ \/ /\ Expires(ReprocessTimeout, conn[c].time)
          /\ procs' = ReapOnTimeout(procs, c)
          /\ conn' = [conn EXCEPT ![c] =
                          Responded([@ EXCEPT !.run = "timeout"], 500,
                              SetFailure("Data processing timed out after 30 seconds",
                                         <<>>))]
          /\ UNCHANGED dist_exists
       \/ /\ ~Expires(ReprocessTimeout, conn[c].time)
          /\ ~conn[c].time.hangs
          /\ procs' = ReapOnExit(procs, c)
          /\ \/ /\ LET r == SetResult(0, conn[c].teams, <<>>) IN
                   conn' = [conn EXCEPT ![c] =
                                Responded([@ EXCEPT !.run = "exit0"],
                                          r.status, r.body)]
                /\ dist_exists' \in {dist_exists, TRUE}
             \/ /\ \E stderr \in Stderrs :
                       LET r == SetResult(1, conn[c].teams, stderr) IN
                       conn' = [conn EXCEPT ![c] =
                                    Responded([@ EXCEPT !.run = "nonzero"],
                                              r.status, r.body)]
                /\ UNCHANGED dist_exists
    /\ UNCHANGED <<environ, last_set>>

\* ------------------------------------------------------------------------
\* Backend proxy handlers
\* ------------------------------------------------------------------------
ErrorBody(error, message) ==
    [kind |-> "error", error |-> error, message |-> message]

MalformedBody(stdout) ==
    [kind |-> "error", error |-> "Invalid JSON response from database backend",
     output |-> stdout]

\* variant: the decode failure is not caught and leaves the handler's
\* zero-exit branch as a generic fault
QueryResultUncaught(rc, stdout, stderr) ==
    IF rc = 0
    THEN LET v == Extracted[stdout] IN
         IF v.type # "error"
         THEN [status |-> 200, body |-> [kind |-> "json", value |-> v]]
         ELSE [status |-> 500, body |-> ErrorBody("Internal server error", <<>>)]
    ELSE [status |-> 500,
          body |-> ErrorBody("Database query failed", ErrorMsg(stderr))]

\* lines 307-336: the response of handle_database_query once the child has
\* exited with code rc
QueryResult(rc, stdout, stderr) ==
    IF rc = 0
    THEN LET v == Extracted[stdout] IN
         IF v.type # "error"
         THEN [status |-> 200, body |-> [kind |-> "json", value |-> v]]
         ELSE [status |-> 500, body |-> MalformedBody(stdout)]
    ELSE [status |-> 500,
          body |-> ErrorBody("Database query failed", ErrorMsg(stderr))]

\* lines 129-171 and 177-181: the response of handle_get_available_teams
\* once the child has exited; a decoded value that is not an object has
\* no .get and ends in the last except
TeamsResult(rc, stdout, stderr) ==
    IF rc = 0
    THEN LET v == Extracted[stdout] IN
         IF v.type = "error"
         THEN [status |-> 500, body |-> MalformedBody(stdout)]
         ELSE IF v.type = "object"
         THEN [status |-> 200, body |-> [kind |-> "available", available |-> <<>>]]
         ELSE [status |-> 500, body |-> ErrorBody("Internal server error", <<>>)]
    ELSE [status |-> 500,
          body |-> ErrorBody("Failed to query teams from GraphDB", ErrorMsg(stderr))]

\* variant: the child is started before the script is looked for, and a
\* missing script is reported once the child has failed
BackendStartCheckLate(c, handler, arg) ==
    /\ At(c, handler, "start")
    /\ \E script_exists \in BOOLEAN, time \in ProcTimes :
           IF ~script_exists
           THEN /\ conn' = [conn EXCEPT ![c] =
                                Responded([@ EXCEPT !.run = "missing",
                                                    !.spawns = @ + 1], 503,
                                    ErrorBody("Database query backend not available",
                                              <<>>))]
                /\ UNCHANGED procs
           ELSE /\ procs' = procs \cup
                        {[owner |-> c, cmd |-> "db-query", arg |-> arg,
                          kv |-> EnvGet(environ.KNOWLEDGE_VIEW, <<>>)]}
                /\ conn' = [conn EXCEPT ![c].pc = "run", ![c].time = time,
                                        ![c].spawns = @ + 1]
    /\ UNCHANGED <<environ, dist_exists, last_set>>

\* lines 107-127 and 279-305: check that db-query-cli.js exists, then start
\* the query; an exception while starting the child ends in the last except
BackendStart(c, handler, arg) ==
    /\ At(c, handler, "start")
    /\ \E script_exists \in BOOLEAN, spawned \in BOOLEAN, time \in ProcTimes :
           IF ~script_exists
           THEN /\ conn' = [conn EXCEPT ![c] =
                                Responded([@ EXCEPT !.run = "missing"], 503,
                                    ErrorBody("Database query backend not available",
                                              <<>>))]
                /\ UNCHANGED procs
           ELSE IF ~spawned
           THEN /\ conn' = [conn EXCEPT ![c] =
                                Responded([@ EXCEPT !.run = "spawn_failed"], 500,
                                          ErrorBody("Internal server error", <<>>))]
                /\ UNCHANGED procs
           ELSE /\ procs' = procs \cup
                        {[owner |-> c, cmd |-> "db-query", arg |-> arg,
                          kv |-> EnvGet(environ.KNOWLEDGE_VIEW, <<>>)]}
                /\ conn' = [conn EXCEPT ![c].pc = "run", ![c].time = time,
                                        ![c].spawns = @ + 1]
    /\ UNCHANGED <<environ, dist_exists, last_set>>

\* subprocess.run returns or raises TimeoutExpired (lines 172-176, 337-341)
BackendResult(handler, rc, stdout, stderr) ==
    IF handler = "get_available_teams"
    THEN TeamsResult(rc, stdout, stderr)
    ELSE QueryResult(rc, stdout, stderr)

BackendReturn(c, handler, timeoutError) ==
    /\ At(c, handler, "run")
    /\ \/ /\ Expires(QueryTimeout, conn[c].time)
          /\ procs' = ReapOnTimeout(procs, c)
          /\ conn' = [conn EXCEPT ![c] =
                          Responded([@ EXCEPT !.run = "timeout"], 504,
                                    ErrorBody(timeoutError, <<>>))]
       \/ /\ ~Expires(QueryTimeout, conn[c].time)
          /\ ~conn[c].time.hangs
          /\ procs' = ReapOnExit(procs, c)
          /\ \/ \E stdout \in Stdouts :
                    LET r == BackendResult(handler, 0, stdout, <<>>) IN
                    conn' = [conn EXCEPT ![c] =
                                 Responded([@ EXCEPT !.run = "exit0",
                                                     !.stdout = stdout],
                                           r.status, r.body)]
             \/ \E stderr \in Stderrs :
                    LET r == BackendResult(handler, 1, <<>>, stderr) IN
                    conn' = [conn EXCEPT ![c] =
                                 Responded([@ EXCEPT !.run = "nonzero"],
                                           r.status, r.body)]
    /\ UNCHANGED <<environ, dist_exists, last_set>>

\* handle_database_query, lines 273-346
DatabaseQueryStart(c) ==
    BackendStart(c, "database_query", QueryType(UrlPath(conn[c].req.target)))

DatabaseQueryReturn(c) ==
    BackendReturn(c, "database_query", "Database query timed out")

\* handle_get_available_teams, lines 101-181
AvailableTeamsStart(c) == BackendStart(c, "get_available_teams", "teams")

AvailableTeamsReturn(c) ==
    BackendReturn(c, "get_available_teams", "Teams query timed out")

\* ------------------------------------------------------------------------
\* Remaining handlers
\* ------------------------------------------------------------------------
HtmlError == [kind |-> "html_error"]

\* lines 354-398: the response for a request path, given whether the file
\* can be read
KMResponse(path, readable) ==
    IF ~KMAllowed(path) THEN [status |-> 403, body |-> HtmlError]
    ELSE IF KMTarget(path) \notin Files
         THEN [status |-> 404, body |-> HtmlError]
    ELSE IF readable
         THEN [status |-> 200,
               body |-> [kind |-> "file", path |-> KMTarget(path)]]
    ELSE [status |-> 500, body |-> HtmlError]

\* KMResponse over the sampled paths, computed once
KMResponses == [p \in KMPaths |-> [r \in BOOLEAN |-> KMResponse(p, r)]]

\* handle_knowledge_management_file, lines 348-398
KnowledgeManagementFile(c) ==
    /\ At(c, "knowledge_management_file", "start")
    /\ \E readable \in BOOLEAN :
           conn' = [conn EXCEPT ![c] =
                        Responded(@,
                                  KMResponses[conn[c].req.target][readable].status,
                                  KMResponses[conn[c].req.target][readable].body)]
    /\ UNCHANGED <<environ, dist_exists, procs, last_set>>

\* handle_health_check, lines 400-451: int() of a non-numeric PORT raises
\* outside any try
HealthCheck(c) ==
    /\ At(c, "health_check", "start")
    /\ LET port == environ.PORT IN
       \E psutil_available \in BOOLEAN, listed \in BOOLEAN :
           conn' = [conn EXCEPT ![c] =
                        IF port.set /\ \E i \in 1..Len(port.val) :
                                           port.val[i] \notin {"0", "8"}
                        THEN Raised(@)
                        ELSE Responded(@, 200,
                                       [kind |-> "health",
                                        metrics |-> psutil_available,
                                        warning |-> ~listed])]
    /\ UNCHANGED <<environ, dist_exists, procs, last_set>>

\* do_OPTIONS, lines 33-36
Options(c) ==
    /\ At(c, "options", "start")
    /\ conn' = [conn EXCEPT ![c] = Responded(@, 200, [kind |-> "empty"])]
    /\ UNCHANGED <<environ, dist_exists, procs, last_set>>

\* do_POST, line 74: send_error(404)
NotFound(c) ==
    /\ At(c, "not_found", "start")
    /\ conn' = [conn EXCEPT ![c] = Responded(@, 404, HtmlError)]
    /\ UNCHANGED <<environ, dist_exists, procs, last_set>>

\* a method without a do_ method: the base handler answers 501
Unsupported(c) ==
    /\ At(c, "unsupported", "start")
    /\ conn' = [conn EXCEPT ![c] = Responded(@, 501, HtmlError)]
    /\ UNCHANGED <<environ, dist_exists, procs, last_set>>

\* do_GET, line 65: the static file server of the base class
Static(c) ==
    /\ At(c, "static", "start")
    /\ \E found \in BOOLEAN :
           conn' = [conn EXCEPT ![c] =
                        IF found THEN Responded(@, 200, [kind |-> "static"])
                        ELSE Responded(@, 404, HtmlError)]
    /\ UNCHANGED <<environ, dist_exists, procs, last_set>>

\* ------------------------------------------------------------------------
\* The static server with CORS headers: src/cors-server.py
\* ------------------------------------------------------------------------
\* requests sent to the static server
CorsRequests ==
    {[method |-> m, target |-> <<"/", "index.html">>, body |-> NoBody] :
         m \in {"GET", "OPTIONS", "POST"}}

\* CORSHTTPRequestHandler has do_GET of the base class and do_OPTIONS
CorsRoute(req) ==
    IF req.method = "GET" THEN "cors_static"
    ELSE IF req.method = "OPTIONS" THEN "cors_options"
    ELSE "cors_unsupported"

\* cors-server.py main, lines 48-54: a TCPServer without a threading mix-in
CorsCanAccept(cn) == \A d \in Clients : cn[d].st # "cors_handling"

CorsAccept(c) ==
    /\ conn[c].st = "waiting"
    /\ CorsCanAccept(conn)
    /\ \E req \in CorsRequests :
           conn' = [conn EXCEPT ![c] =
                        [@ EXCEPT !.st = "cors_handling", !.req = req,
                                  !.handler = CorsRoute(req), !.pc = "start"]]
    /\ UNCHANGED <<environ, dist_exists, procs, last_set>>

\* CORSHTTPRequestHandler.end_headers, cors-server.py lines 17-22
CorsEndHeaders(headers) == headers \cup CorsHeaders

CorsResponded(r, status, body) ==
    [r EXCEPT !.resp = Append(@, [status |-> status, body |-> body,
                                  headers |-> CorsEndHeaders(ContentType(body))]),
              !.pc = "sent"]

\* the handler of the static server: a file or 404 for GET, 200 without a
\* body for OPTIONS (lines 24-27), 501 for a method it does not define
CorsHandle(c) ==
    /\ conn[c].st = "cors_handling"
    /\ conn[c].pc = "start"
    /\ \E found \in BOOLEAN :
           conn' = [conn EXCEPT ![c] =
                        IF conn[c].handler = "cors_options"
                        THEN CorsResponded(@, 200, [kind |-> "empty"])
                        ELSE IF conn[c].handler = "cors_unsupported"
                        THEN CorsResponded(@, 501, HtmlError)
                        ELSE IF found
                        THEN CorsResponded(@, 200, [kind |-> "static"])
                        ELSE CorsResponded(@, 404, HtmlError)]
    /\ UNCHANGED <<environ, dist_exists, procs, last_set>>

CorsFinish(c) ==
    /\ conn[c].st = "cors_handling"
    /\ conn[c].pc = "sent"
    /\ conn' = [conn EXCEPT ![c] = [IdleConn EXCEPT !.st = "closed"]]
    /\ UNCHANGED <<environ, dist_exists, procs, last_set>>

\* ------------------------------------------------------------------------
\* Specification
\* ------------------------------------------------------------------------
Handle(c) ==
    \/ GetCurrentTeams(c)
    \/ GetConfig(c)
    \/ SetTeamsParse(c)
    \/ SetTeamsWriteEnv(c)
    \/ SetTeamsRemoveDist(c)
    \/ SetTeamsStart(c)
    \/ SetTeamsReturn(c)
    \/ DatabaseQueryStart(c)
    \/ DatabaseQueryReturn(c)
    \/ AvailableTeamsStart(c)
    \/ AvailableTeamsReturn(c)
    \/ KnowledgeManagementFile(c)
    \/ HealthCheck(c)
    \/ Options(c)
    \/ NotFound(c)
    \/ Unsupported(c)
    \/ Static(c)
    \/ Finish(c)

Next ==
    \E c \in Clients :
        \/ Connect(c)
        \/ Accept(c)
        \/ Handle(c)
        \/ CorsAccept(c)
        \/ CorsHandle(c)
        \/ CorsFinish(c)

Spec == Init /\ [][Next]_vars

\* subprocess.run blocks the server's only thread and ends when the child
\* exits or the timeout expires
SubprocessReturns ==
    \E c \in Clients :
        SetTeamsReturn(c) \/ DatabaseQueryReturn(c) \/ AvailableTeamsReturn(c)

\* the server started with the default environment
LiveInit ==
    /\ Init
    /\ environ.KNOWLEDGE_VIEW = Unset
    /\ environ.PORT = Unset

LiveSpec == LiveInit /\ [][Next]_vars /\ WF_vars(SubprocessReturns)

\* ------------------------------------------------------------------------
\* Properties
\* ------------------------------------------------------------------------
Sent(c) == conn[c].st = "handling" /\ conn[c].pc = "sent"

\* the response of a connection whose handler has answered
Resp(c) == conn[c].resp[Len(conn[c].resp)]

Stored == environ.KNOWLEDGE_VIEW

\* no set handler is between its write and its response
SetHandlersDone ==
    \A c \in Clients :
        ~(conn[c].st = "handling" /\ conn[c].handler = "set_teams"
              /\ conn[c].pc \notin {"start", "sent", "raised"})

\* a raw selection names a team: some comma-separated item is not blank
NamesATeam(raw) ==
    \E i \in 1..Len(SplitOn(raw, ",")) : Strip(SplitOn(raw, ",")[i]) # <<>>

\* C1: once a POST /api/teams has written the selection and its handler has
\* completed, the stored raw value contains at least one team identifier,
\* for every list of strings sent as 'teams'.
C1_StoredSelectionNeverEmpty ==
    (last_set.did /\ SetHandlersDone) => (Stored.set /\ NamesATeam(Stored.val))

\* C2: after a POST /api/teams with a non-empty list L and no later POST,
\* GET /api/current-teams returns teams equal to L and raw equal to the
\* comma-joined elements of L.
C2_SetGetRoundTrip ==
    \A c \in Clients :
        (/\ Sent(c) /\ conn[c].handler = "get_current_teams"
         /\ last_set.did /\ last_set.teams # <<>>)
            => /\ Resp(c).body.teams = last_set.teams
               /\ Resp(c).body.raw = JoinWith(<<",">>, last_set.teams)

\* path containment: the target is the root or lies below it
Inside(target, root) ==
    target = root \/ StartsWith(target, root \o <<"/">>)

\* C3: a GET under /knowledge-management/ whose canonical target is not
\* the project root or a descendant of it is answered 403 and no file
\* content is sent.
C3_OutsideRootForbidden ==
    \A c \in Clients :
        (/\ Sent(c) /\ conn[c].handler = "knowledge_management_file"
         /\ ~Inside(KMTarget(UrlPath(conn[c].req.target)), Realpath(CodingPath)))
            => Resp(c).status = 403 /\ Resp(c).body.kind # "file"

\* the raw form of a requested team set: its elements joined by commas,
\* the default standing in for the empty set
RawForm(A) == JoinWith(<<",">>, IF A = <<>> THEN <<Coding>> ELSE A)

\* C4: the stored selection is always the raw form of the input of the
\* POST /api/teams that wrote last, so with two calls A and B in any
\* interleaving it equals raw(A) or raw(B) and never anything else.
C4_StoredMatchesACall ==
    last_set.did => Stored = Val(RawForm(last_set.teams))

\* a second POST has replaced the different selection of an earlier one
C4_Witness ==
    /\ last_set.changed
    /\ \E c \in Clients : Sent(c) /\ conn[c].handler = "set_teams"

\* connections whose set handler is between the write of the selection and
\* the end of the reprocessing subprocess
InSetSection ==
    {c \in Clients : /\ conn[c].st = "handling"
                     /\ conn[c].handler = "set_teams"
                     /\ conn[c].pc \in {"write", "remove", "check", "run"}}

\* C5: at most one 'data process' subprocess is running, and at most one
\* POST /api/teams is between writing the selection and the end of its
\* reprocessing.
C5_SetSerialized ==
    /\ Cardinality({p \in procs : p.cmd = "data process"}) <= 1
    /\ Cardinality(InSetSection) <= 1

\* a reprocessing subprocess runs while another connection is waiting
C5_Witness ==
    \E p \in procs :
        /\ p.cmd = "data process"
        /\ \E d \in Clients : d # p.owner /\ conn[d].st = "waiting"

BackendHandlers == {"database_query", "get_available_teams", "set_teams"}

\* the code's candidate line is missing or does not decode
Undecodable(stdout) ==
    ~JsonLine(stdout).found \/ JsonLoads(JsonLine(stdout).line).type = "error"

\* C6: for every handler that invokes the backend the failure mode fixes
\* the status: executable missing 503, timeout 504, non-zero exit or
\* malformed output 500.
C6_StatusByFailureMode ==
    \A c \in Clients :
        (Sent(c) /\ conn[c].handler \in BackendHandlers)
            => /\ conn[c].run = "missing" => Resp(c).status = 503
               /\ conn[c].run = "timeout" => Resp(c).status = 504
               /\ conn[c].run = "nonzero" => Resp(c).status = 500
               /\ (/\ conn[c].run = "exit0"
                   /\ conn[c].handler # "set_teams"
                   /\ Undecodable(conn[c].stdout)) => Resp(c).status = 500

\* the text by which the response of POST /api/teams names a failure
SetFailureText(run) ==
    IF run = "missing" THEN "VKB CLI not found"
    ELSE IF run = "timeout" THEN "Data processing timed out after 30 seconds"
    ELSE "Data processing failed"

\* C7: POST /api/teams answers success=true exactly when the subprocess
\* was started and exited with code 0; on non-zero exit, timeout or a
\* missing executable it answers success=false with a non-2xx status and a
\* body naming that reason; success is sent only after the artifact has
\* been invalidated and the subprocess has finished.
C7_SetReportsOutcome ==
    \A c \in Clients :
        (Sent(c) /\ conn[c].handler = "set_teams")
            => /\ Resp(c).body.success <=> conn[c].run = "exit0"
               /\ Resp(c).body.success
                      => /\ Resp(c).status = 200
                         /\ conn[c].inval
                         /\ \A p \in procs : p.owner # c
               /\ conn[c].run \in {"missing", "timeout", "nonzero"}
                      => /\ ~Resp(c).body.success
                         /\ Resp(c).status \notin 200..299
                         /\ Resp(c).body.error = SetFailureText(conn[c].run)

\* a set request answered with failure after its subprocess exited non-zero
C7_Witness ==
    \E c \in Clients :
        /\ Sent(c) /\ conn[c].handler = "set_teams"
        /\ conn[c].run = "nonzero" /\ ~Resp(c).body.success

\* the child of connection c runs longer than the timeout the spec
\* configures for its handler
RunsTooLong(c) ==
    \/ conn[c].time.hangs
    \/ conn[c].time.dur > (IF conn[c].handler = "set_teams" THEN 30 ELSE 10)

TimeoutTexts == {"Database query timed out", "Teams query timed out",
                 "Data processing timed out after 30 seconds"}

C8_Safe ==
    \A c \in Clients :
        /\ (Sent(c) /\ conn[c].handler \in BackendHandlers
                /\ conn[c].run \in {"exit0", "nonzero", "timeout"}
                /\ RunsTooLong(c))
               => /\ conn[c].run = "timeout"
                  /\ Resp(c).body.error \in TimeoutTexts
        /\ (Sent(c) \/ conn[c].st = "closed")
               => \A p \in procs : p.owner # c

\* C8: a backend invocation that runs longer than its timeout (10s for
\* queries, 30s for reprocess) is answered with the timeout outcome, no
\* subprocess of a request is running once its response is sent, and every
\* request that started a subprocess is eventually answered.
C8_TimeoutEndsWait ==
    /\ []C8_Safe
    /\ \A c \in Clients : (conn[c].pc = "run") ~> (conn[c].resp # <<>>)

\* a request whose child never exits has been answered with the timeout
C8_Witness ==
    \E c \in Clients :
        Sent(c) /\ conn[c].run = "timeout" /\ conn[c].time.hangs

\* the payload line as the claim describes it: stdout split into lines,
\* scanned forward for the first non-empty line not starting with a marker
ClaimedLine(stdout) == FirstCandidate(SplitOn(stdout, "\n"))

\* C9: on zero exit the payload is the first line of stdout that is
\* non-empty and does not start with '[', ' ' or a status glyph, and when
\* it decodes its JSON value is the 200 response body.
C9_FirstNonLogLineIsPayload ==
    \A c \in Clients :
        (/\ Sent(c) /\ conn[c].handler = "database_query"
         /\ conn[c].run = "exit0"
         /\ ClaimedLine(conn[c].stdout).found
         /\ JsonLoads(ClaimedLine(conn[c].stdout).line).type # "error")
            => /\ Resp(c).status = 200
               /\ Resp(c).body.kind = "json"
               /\ Resp(c).body.value = JsonLoads(ClaimedLine(conn[c].stdout).line)

\* no line of stdout decodes as JSON
NoLineDecodes(stdout) ==
    \A i \in 1..Len(SplitOn(stdout, "\n")) :
        JsonLoads(SplitOn(stdout, "\n")[i]).type = "error"

\* C10: when the stdout of a zero-exit invocation has no line decodable as
\* JSON (no candidate, or a candidate that does not decode) the response
\* is the structured malformed-output error, exactly one response is sent,
\* and the handler does not raise.
C10_MalformedIsReported ==
    \A c \in Clients :
        (conn[c].st = "handling"
             /\ conn[c].handler \in {"database_query", "get_available_teams"})
            => /\ conn[c].pc # "raised"
               /\ (/\ conn[c].pc = "sent" /\ conn[c].run = "exit0"
                   /\ (NoLineDecodes(conn[c].stdout)
                           \/ Undecodable(conn[c].stdout)))
                      => /\ Len(conn[c].resp) = 1
                         /\ Resp(c).status = 500
                         /\ Resp(c).body.kind = "error"
                         /\ Resp(c).body.error =
                                "Invalid JSON response from database backend"

\* a query answered after a zero exit whose candidate line did not decode
C10_Witness ==
    \E c \in Clients :
        /\ Sent(c) /\ conn[c].handler = "database_query"
        /\ conn[c].run = "exit0"
        /\ JsonLine(conn[c].stdout).found
        /\ Undecodable(conn[c].stdout)

\* the query types the claim names: the proxied data queries
ProxiedQueries == {"entities", "relations", "stats"}

\* C11: every response of a proxied backend query (/api/entities,
\* /api/relations, /api/stats) has a JSON object as its body, the decoded
\* payload object or a structured error object; a payload line that decodes
\* to a non-object value is never forwarded as a success body.
C11_BodyIsObject ==
    \A c \in Clients :
        (/\ Sent(c) /\ conn[c].handler = "database_query"
         /\ QueryType(UrlPath(conn[c].req.target)) \in ProxiedQueries)
            => \/ Resp(c).body.kind = "error"
               \/ /\ Resp(c).body.kind = "json"
                  /\ Resp(c).body.value.type = "object"

\* C12: GET /health always yields status 200 with a JSON snapshot, for
\* every environment state (metrics source missing, export directory
\* unreadable, any value of the configured port): the handler never ends
\* without having answered.
C12_HealthAlwaysAnswers ==
    \A c \in Clients :
        (/\ conn[c].st = "handling" /\ conn[c].handler = "health_check"
         /\ conn[c].pc # "start")
            => /\ conn[c].pc = "sent"
               /\ Resp(c).status = 200
               /\ Resp(c).body.kind = "health"

\* C13: GET /api/health is handled like GET /health: it is answered with
\* the locally assembled health snapshot, from process state, without
\* invoking the backend subprocess, in every state.
C13_ApiHealthIsLocal ==
    \A c \in Clients :
        (/\ Sent(c) /\ conn[c].req.method = "GET"
         /\ UrlPath(conn[c].req.target) = Api("health"))
            => /\ conn[c].handler = "health_check"
               /\ conn[c].run = "none"
               /\ Resp(c).body.kind = "health"

\* the GET entries of the route table
InGetTable(path) ==
    \/ path \in {Api(n) : n \in {"teams", "available-teams", "current-teams",
                                 "config", "health", "entities", "relations",
                                 "stats"}}
    \/ path = <<"/", "health">>
    \/ StartsWith(path, KM)

\* C14: routing is a total function of method and path without the query
\* string: an unmatched GET goes to the static-file fallback, a POST to a
\* path other than /api/teams and a request with any other unmatched
\* method yield 404, and OPTIONS to any path yields 200 with an empty body
\* without running another handler.
C14_RoutingTotal ==
    \A c \in Clients :
        Sent(c) =>
            LET req == conn[c].req
                path == UrlPath(req.target)
            IN  /\ (req.method = "GET" /\ ~InGetTable(path))
                       => conn[c].handler = "static"
                /\ (req.method = "POST" /\ path # Api("teams"))
                       => Resp(c).status = 404
                /\ req.method \notin {"GET", "POST", "OPTIONS"}
                       => Resp(c).status = 404
                /\ req.method = "OPTIONS"
                       => /\ conn[c].handler = "options"
                          /\ Resp(c).status = 200
                          /\ Resp(c).body.kind = "empty"
                          /\ conn[c].run = "none"

\* C15: every response sent, whatever the handler and the status, carries
\* the three CORS headers Access-Control-Allow-Origin: *,
\* Access-Control-Allow-Methods: GET, POST, OPTIONS and
\* Access-Control-Allow-Headers: Content-Type.
C15_CorsOnEveryResponse ==
    \A c \in Clients :
        \A i \in 1..Len(conn[c].resp) :
            /\ [name |-> "Access-Control-Allow-Origin", value |-> "*"]
                   \in conn[c].resp[i].headers
            /\ [name |-> "Access-Control-Allow-Methods",
                value |-> "GET, POST, OPTIONS"] \in conn[c].resp[i].headers
            /\ [name |-> "Access-Control-Allow-Headers",
                value |-> "Content-Type"] \in conn[c].resp[i].headers

\* the API server has sent an error response while the static server has
\* sent a response of its own
C15_Witness ==
    \E c, d \in Clients :
        /\ Sent(c) /\ Resp(c).status \in {403, 404, 500, 503, 504}
        /\ conn[d].st = "cors_handling" /\ conn[d].pc = "sent"

\* the response the handler of connection c sends when its subprocess exits
\* non-zero with the given stderr
NonZeroResponse(c, stderr) ==
    IF conn[c].handler = "set_teams"
    THEN SetResult(1, conn[c].teams, stderr)
    ELSE BackendResult(conn[c].handler, 1, <<>>, stderr)

\* C16: for a non-zero exit and for malformed output the client response
\* does not depend on the text of the subprocess's stderr or stdout: the
\* response sent is the one any other stderr (any other malformed stdout)
\* would have produced.
C16_DiagnosticsStayServerSide ==
    \A c \in Clients :
        (Sent(c) /\ conn[c].handler \in BackendHandlers)
            => /\ conn[c].run = "nonzero"
                      => \A stderr \in Stderrs :
                             Resp(c).body = NonZeroResponse(c, stderr).body
               /\ (/\ conn[c].run = "exit0" /\ conn[c].handler # "set_teams"
                   /\ Extracted[conn[c].stdout].type = "error")
                      => \A stdout \in Stdouts :
                             Extracted[stdout].type = "error"
                                 => Resp(c).body =
                                        BackendResult(conn[c].handler, 0,
                                                      stdout, <<>>).body

\* connection c is handling a POST /api/teams whose teams list is empty or
\* absent
SetsEmptyList(c) ==
    /\ conn[c].st = "handling" /\ conn[c].handler = "set_teams"
    /\ conn[c].req.body.kind \in {"teams", "noteams"}
    /\ conn[c].req.body.teams = <<>>

\* C17: set([]) is equivalent to set(["coding"]): a POST /api/teams with an
\* empty or absent teams list has, at every step, the stored selection, the
\* artifact invalidation, the subprocess invocation with its environment
\* and the response that the handler computes for teams = ["coding"].
C17_EmptyIsCoding ==
    \A c \in Clients :
        SetsEmptyList(c) =>
            LET asCoding == DefaultTeams(<<Coding>>) IN
            /\ conn[c].pc # "start" => conn[c].teams = asCoding
            /\ conn[c].pc \in {"remove", "check", "run"}
                   => Stored = Val(TeamsStr(asCoding))
            /\ conn[c].pc \in {"check", "run"}
                   => conn[c].inval /\ ~dist_exists
            /\ \A p \in procs :
                   p.owner = c => /\ p.cmd = "data process"
                                  /\ p.kv = TeamsStr(asCoding)
            /\ (conn[c].pc = "sent" /\ conn[c].run = "exit0")
                   => /\ Resp(c).status = SetResult(0, asCoding, <<>>).status
                      /\ Resp(c).body = SetResult(0, asCoding, <<>>).body
            /\ (conn[c].pc = "sent" /\ conn[c].run = "nonzero")
                   => \E stderr \in Stderrs :
                          /\ Resp(c).status = SetResult(1, asCoding, stderr).status
                          /\ Resp(c).body = SetResult(1, asCoding, stderr).body

\* a POST /api/teams without a teams field has been answered with success
C17_Witness ==
    \E c \in Clients :
        /\ SetsEmptyList(c) /\ conn[c].req.body.kind = "noteams"
        /\ conn[c].pc = "sent" /\ conn[c].run = "exit0"
        /\ Resp(c).body.teams = <<Coding>>

\* the set handler of some connection takes the step
SetHandlerSteps ==
    \E c \in Clients :
        /\ conn[c].st = "handling" /\ conn[c].handler = "set_teams"
        /\ conn'[c] # conn[c]

\* C18: the team selection is mutated only by the set operation: a step of
\* any GET handler, of OPTIONS, of an unmatched POST or of the accept loop
\* leaves KNOWLEDGE_VIEW and the cached visualization artifact unchanged.
C18_OnlySetWrites ==
    [][(environ'.KNOWLEDGE_VIEW # environ.KNOWLEDGE_VIEW
            \/ dist_exists' # dist_exists) => SetHandlerSteps]_vars

\* GET /api/current-teams has been answered from a selection that a POST
\* /api/teams stored, and the selection is still the stored one
C18_Witness ==
    \E c \in Clients :
        /\ Sent(c) /\ conn[c].handler = "get_current_teams"
        /\ last_set.did /\ Stored = Val(RawForm(last_set.teams))
        /\ Resp(c).body.raw = Stored.val

\* the items of a raw selection as the claim describes them: each
\* comma-separated item with its braces removed and trimmed, the empty ones
\* left out
ClaimedItems(raw) ==
    LET items == SplitOn(raw, ",")
        Clean(t) == Strip(Remove(Remove(t, "{"), "}"))
        cleaned == [i \in 1..Len(items) |-> Clean(items[i])]
        NonEmpty(t) == t # <<>>
    IN  SelectSeq(cleaned, NonEmpty)

\* C19: GET /api/current-teams returns a non-empty teams list for every
\* stored raw value: ["coding"] when KNOWLEDGE_VIEW is absent, empty or made
\* of braces, commas and whitespace only, otherwise the ordered non-empty
\* trimmed comma-separated items with braces removed; raw is reported
\* unmodified.
C19_CurrentTeamsNeverEmpty ==
    \A c \in Clients :
        (Sent(c) /\ conn[c].handler = "get_current_teams")
            => /\ Resp(c).status = 200
               /\ Resp(c).body.teams # <<>>
               /\ ~Stored.set => Resp(c).body.teams = <<Coding>>
               /\ Stored.set
                      => /\ Resp(c).body.raw = Stored.val
                         /\ Resp(c).body.teams =
                                IF ClaimedItems(Stored.val) = <<>>
                                THEN <<Coding>>
                                ELSE ClaimedItems(Stored.val)

\* the stored raw value is not empty but holds no item, and the answer is
\* the default
C19_Witness ==
    \E c \in Clients :
        /\ Sent(c) /\ conn[c].handler = "get_current_teams"
        /\ Stored.set /\ Stored.val # <<>>
        /\ ClaimedItems(Stored.val) = <<>>
        /\ Resp(c).body.teams = <<Coding>>

\* C20: each request starts at most one subprocess, and none when the
\* backend executable is missing: the missing script is answered before any
\* invocation, and a subprocess that failed (non-zero exit, timeout,
\* malformed output) is not started again for the same request.
C20_AtMostOneSubprocess ==
    \A c \in Clients :
        /\ conn[c].spawns <= 1
        /\ Cardinality({p \in procs : p.owner = c}) <= 1
        /\ conn[c].run = "missing"
               => /\ conn[c].spawns = 0
                  /\ \A p \in procs : p.owner # c
        /\ (Sent(c) /\ conn[c].run \in {"nonzero", "timeout", "exit0"})
               => /\ conn[c].spawns = 1
                  /\ \A p \in procs : p.owner # c

\* a query whose one subprocess produced malformed output has been answered
C20_Witness ==
    \E c \in Clients :
        /\ Sent(c) /\ conn[c].handler = "database_query"
        /\ conn[c].run = "exit0" /\ Resp(c).status = 500
        /\ conn[c].spawns = 1

\* C21: POST /api/teams writes KNOWLEDGE_VIEW and deletes the cached
\* dist/memory.json before it tests that the CLI exists and before it runs
\* the subprocess, and rolls nothing back: whenever it reports failure (CLI
\* missing, non-zero exit, timeout) the stored selection equals the
\* requested teams and the cached artifact is absent.
C21_EffectsBeforeBackendCheck ==
    \A c \in Clients :
        (conn[c].st = "handling" /\ conn[c].handler = "set_teams")
            => /\ conn[c].pc \in {"check", "run"}
                      => /\ Stored = Val(RawForm(conn[c].req.body.teams))
                         /\ conn[c].inval /\ ~dist_exists
               /\ (conn[c].pc = "sent"
                       /\ conn[c].run \in {"missing", "nonzero", "timeout"})
                      => /\ ~Resp(c).body.success
                         /\ Stored = Val(RawForm(conn[c].req.body.teams))
                         /\ conn[c].inval /\ ~dist_exists

\* a set request for a list of its own has been answered "CLI not found"
C21_Witness ==
    \E c \in Clients :
        /\ Sent(c) /\ conn[c].handler = "set_teams"
        /\ conn[c].run = "missing" /\ conn[c].spawns = 0
        /\ conn[c].req.body.teams # <<>>
        /\ Stored = Val(RawForm(conn[c].req.body.teams))
        /\ ~dist_exists

\* bodies of POST /api/teams that cannot be turned into a selection
BadBodyKinds == {"invalid", "nonobject", "badelem"}

\* connection c is handling a POST /api/teams with such a body
SetsBadBody(c) ==
    /\ conn[c].st = "handling" /\ conn[c].handler = "set_teams"
    /\ conn[c].req.body.kind \in BadBodyKinds

C22_Answered ==
    \A c \in Clients :
        SetsBadBody(c)
            => /\ conn[c].pc \in {"start", "sent"}
               /\ conn[c].spawns = 0 /\ ~conn[c].inval
               /\ \A p \in procs : p.owner # c
               /\ conn[c].pc = "sent"
                      => /\ Len(conn[c].resp) = 1
                         /\ Resp(c).status = 500
                         /\ ~Resp(c).body.success

\* C22: a POST /api/teams whose body is not valid JSON, is not a JSON
\* object, or whose teams list holds a non-string element is answered with
\* 500 and success=false and leaves the state untouched: no step taken
\* while it is handled changes KNOWLEDGE_VIEW, deletes the cached artifact
\* or starts a subprocess.
C22_BadBodyChangesNothing ==
    /\ []C22_Answered
    /\ [][(\E c \in Clients : SetsBadBody(c))
              => UNCHANGED <<environ, dist_exists, procs>>]_vars

\* a set request with a non-string element has been refused while the
\* selection stored by an earlier request and the artifact are in place
C22_Witness ==
    \E c \in Clients :
        /\ SetsBadBody(c) /\ conn[c].req.body.kind = "badelem"
        /\ conn[c].pc = "sent" /\ Resp(c).status = 500
        /\ last_set.did /\ Stored = Val(RawForm(last_set.teams))
        /\ dist_exists

\* C23: the extractor decodes only one candidate: when the first non-log
\* line is not valid JSON the outcome is the malformed-output error even if
\* a later line is valid JSON; and since a line starting with '[' is a log
\* line, a payload that is a JSON array is never returned as a success.
C23_OneCandidateNoArrays ==
    \A c \in Clients :
        (/\ Sent(c) /\ conn[c].run = "exit0"
         /\ conn[c].handler \in {"database_query", "get_available_teams"})
            => /\ (/\ JsonLine(conn[c].stdout).found
                   /\ JsonLoads(JsonLine(conn[c].stdout).line).type = "error")
                      => /\ Resp(c).status = 500
                         /\ Resp(c).body.error =
                                "Invalid JSON response from database backend"
               /\ Resp(c).status = 200
                      => /\ Extracted[conn[c].stdout].type # "array"
                         /\ Resp(c).body.kind = "json"
                                => Resp(c).body.value.type # "array"

====
